---- MODULE Spec2Model ----
(***************************************************************************)
(* Kalman filter (kf), RTS smoother with score accumulation (rts) and the  *)
(* parameter store of the linear Gaussian state space model                *)
(* (src/state/kalman.py, src/models/lgss_4parameters.py,                   *)
(* src/models/models_helpers.py).                                          *)
(*                                                                         *)
(* Reals: a float is modelled by the exact rational it stands for, a pair  *)
(* <<n, d>> in lowest terms with d > 0, extended by the three IEEE         *)
(* specials numpy produces instead of raising: <<1,0>> = +inf,             *)
(* <<-1,0>> = -inf, <<0,0>> = NaN.  Rounding is not modelled and zero has  *)
(* no sign.  np.log of a positive finite number is kept symbolic: a        *)
(* log-likelihood is a rational part r plus -1/2 * log(2*pi*s) for every s *)
(* in the bag L.                                                           *)
(*                                                                         *)
(* Arrays are functions on 0..len-1 (the source's own indices).  The       *)
(* filter object's array attributes are references into a heap, so that    *)
(* rebinding an attribute and writing into an array are different things.  *)
(***************************************************************************)
EXTENDS Integers, Sequences, FiniteSets, Bags, TLC

(***************************************************************************)
(* Extended rational arithmetic                                            *)
(***************************************************************************)
Abs(a) == IF a < 0 THEN -a ELSE a

Sgn(a) == IF a < 0 THEN -1 ELSE IF a > 0 THEN 1 ELSE 0

RECURSIVE GCD(_, _)
GCD(a, b) == IF b = 0 THEN a ELSE GCD(b, a % b)

NaN == <<0, 0>>

Inf(s) == <<s, 0>>

Zero == <<0, 1>>

One == <<1, 1>>

Half == <<1, 2>>

Two == <<2, 1>>

Num(k) == <<k, 1>>

IsNaN(x) == x = NaN

IsInf(x) == x[2] = 0 /\ x[1] # 0

IsFinite(x) == x[2] > 0

Neg(x) == <<-x[1], x[2]>>

\* a/b + c/d with the intermediate values kept as small as the result
AddFin(x, y) ==
    LET g  == GCD(x[2], y[2])
        b1 == x[2] \div g
        d1 == y[2] \div g
        n  == x[1] * d1 + y[1] * b1
        g2 == GCD(Abs(n), g)
    IN  IF n = 0 THEN Zero ELSE <<n \div g2, b1 * d1 * (g \div g2)>>

Add(x, y) ==
    IF IsNaN(x) \/ IsNaN(y) THEN NaN
    ELSE IF IsInf(x) /\ IsInf(y) THEN (IF x = y THEN x ELSE NaN)
    ELSE IF IsInf(x) THEN x
    ELSE IF IsInf(y) THEN y
    ELSE AddFin(x, y)

Sub(x, y) == Add(x, Neg(y))

MulFin(x, y) ==
    LET g1 == GCD(Abs(x[1]), y[2])
        g2 == GCD(Abs(y[1]), x[2])
    IN  IF x[1] = 0 \/ y[1] = 0 THEN Zero
        ELSE <<(x[1] \div g1) * (y[1] \div g2), (x[2] \div g2) * (y[2] \div g1)>>

Mul(x, y) ==
    IF IsNaN(x) \/ IsNaN(y) THEN NaN
    ELSE IF IsInf(x) \/ IsInf(y)
         THEN (IF x[1] = 0 \/ y[1] = 0 THEN NaN ELSE Inf(Sgn(x[1]) * Sgn(y[1])))
    ELSE MulFin(x, y)

\* IEEE division as numpy performs it (a warning, never an exception)
Div(x, y) ==
    IF IsNaN(x) \/ IsNaN(y) THEN NaN
    ELSE IF IsInf(y) THEN (IF IsInf(x) THEN NaN ELSE Zero)
    ELSE IF y[1] = 0
         THEN (IF x[1] = 0 THEN NaN ELSE Inf(Sgn(x[1])))
    ELSE Mul(x, <<Sgn(y[1]) * y[2], Abs(y[1])>>)

Sq(x) == Mul(x, x)

\* a - p * k, exactly, without forming the product p * k: its denominator
\* (1e10 for the first filter step) need not fit a 32-bit integer
SubMulFin(a, p, k) ==
    LET g1 == GCD(Abs(p[1]), k[2])
        g2 == GCD(Abs(k[1]), p[2])
        N  == (p[1] \div g1) * (k[1] \div g2)
        D1 == p[2] \div g2
        D2 == k[2] \div g1
        ga == GCD(a[2], D1)
        gb == GCD(a[2] \div ga, D2)
        ad == (a[2] \div ga) \div gb
        Dd == (D1 \div ga) * (D2 \div gb)
        n  == a[1] * Dd - N * ad
        r1 == GCD(Abs(n), ga)
        r2 == GCD(Abs(n) \div r1, gb)
    IN  IF n = 0 THEN Zero
        ELSE <<(n \div r1) \div r2, ad * Dd * (ga \div r1) * (gb \div r2)>>

SubMul(a, p, k) ==
    IF IsFinite(a) /\ IsFinite(p) /\ IsFinite(k) /\ p[1] # 0 /\ k[1] # 0
    THEN SubMulFin(a, p, k)
    ELSE Add(a, Neg(Mul(p, k)))

\* x ** (-k) for k in 1..3
PowNeg(x, k) ==
    LET p == IF k = 1 THEN x ELSE IF k = 2 THEN Sq(x) ELSE Mul(x, Sq(x))
    IN  Div(One, p)

Less(x, y) == x[1] * y[2] < y[1] * x[2]

(***************************************************************************)
(* Log-likelihood values: r + sum over s in L of -1/2 * log(2*pi*s)        *)
(***************************************************************************)
LLZero == [r |-> Zero, L |-> EmptyBag]

LLAdd(a, b) == [r |-> Add(a.r, b.r), L |-> a.L (+) b.L]

\* -0.5 * np.log(2.0 * np.pi * s) - 0.5 * e * e / s
LLTerm(s, e) ==
    LET quad == Neg(Mul(Half, Div(Mul(e, e), s)))
    IN  IF IsFinite(s) /\ s[1] > 0 THEN [r |-> quad, L |-> SetToBag({s})]
        ELSE IF IsFinite(s) /\ s[1] = 0 THEN [r |-> Add(Inf(1), quad), L |-> EmptyBag]
        ELSE IF s = Inf(1) THEN [r |-> Add(Inf(-1), quad), L |-> EmptyBag]
        ELSE [r |-> NaN, L |-> EmptyBag]

(***************************************************************************)
(* Exceptions, arrays, heap                                                *)
(***************************************************************************)
NoExc == [exc |-> "none", line |-> 0]

Raise(e, l) == [exc |-> e, line |-> l]

\* np.zeros(n): a fresh array of n zeros
zeros(n) == [t \in 0 .. n - 1 |-> Zero]

\* np.sum over a one-dimensional array of log-likelihood terms
RECURSIVE SumLLUpTo(_, _)
SumLLUpTo(a, n) == IF n = 0 THEN LLZero ELSE LLAdd(SumLLUpTo(a, n - 1), a[n - 1])

npSumLL(a) == SumLLUpTo(a, Cardinality(DOMAIN a))

\* np.sum over a one-dimensional array of numbers
RECURSIVE SumUpTo(_, _)
SumUpTo(a, n) == IF n = 0 THEN Zero ELSE Add(SumUpTo(a, n - 1), a[n - 1])

npSum(a) == SumUpTo(a, Cardinality(DOMAIN a))

\* mutant of NewRef: the call writes its results into the array the attribute
\* already refers to
NewRefReuse(h, old, k) == IF old # 0 THEN old ELSE Len(h) + k

\* The reference a newly created array gets: the k-th cell past the heap's end
NewRef(h, old, k) == Len(h) + k

\* Binding an attribute to an array: the array becomes heap cell ref
Bind(h, ref, val) == IF ref <= Len(h) THEN [h EXCEPT ![ref] = val] ELSE Append(h, val)

(***************************************************************************)
(* kalmanMethods.kf                                                        *)
(***************************************************************************)
\* initial predicted variance and mean (1e-5 and 0.0)
Po == <<1, 100000>>

xo == Zero

\* lines 47-51, 63-69: the attributes kf stores before its loop
kfSelf(self, sys) ==
    [self EXCEPT !.xo = xo, !.Po = Po, !.filterType = "kf",
                 !.m = sys.par[0], !.A = sys.par[1], !.C = One,
                 !.Q = Sq(sys.par[2]), !.q = sys.par[2],
                 !.R = Sq(sys.par[3]), !.r = sys.par[3]]

\* lines 54-61, 72-73: the local arrays of one kf call, before the loop
kfFrame(self, sys) ==
    [S      |-> zeros(sys.T),
     K      |-> zeros(sys.T),
     xhatp  |-> [zeros(sys.T + 1) EXCEPT ![0] = self.xo],
     xhatf  |-> zeros(sys.T),
     yhatp  |-> zeros(sys.T),
     Pf     |-> zeros(sys.T),
     Pp     |-> [zeros(sys.T + 1) EXCEPT ![0] = self.Po],
     ll     |-> [t \in 0 .. sys.T - 1 |-> LLZero],
     tt     |-> 0,
     raised |-> NoExc]

\* lines 82-95: one iteration of the loop, at tt = f.tt
\* line 88: the rule by which kf predicts the next state from the state x
\* and the input u of the same index
kfPredict(self, x, u) == Add(Add(Mul(self.A, x), Mul(self.m, Sub(One, self.A))), u)

kfStep(self, sys, f) ==
    LET tt    == f.tt
        S     == Add(Mul(Mul(self.C, f.Pp[tt]), self.C), self.R)
        K     == Div(Mul(f.Pp[tt], self.C), S)
        yhatp == Mul(self.C, f.xhatp[tt])
        f1    == [f EXCEPT !.S[tt] = S, !.K[tt] = K, !.yhatp[tt] = yhatp, !.tt = tt + 1]
    IN  IF tt \notin DOMAIN sys.y THEN [f1 EXCEPT !.raised = Raise("IndexError", 87)]
        ELSE
        LET e     == Sub(sys.y[tt], yhatp)
            xhatf == Add(f.xhatp[tt], Mul(K, e))
        IN  IF tt \notin DOMAIN sys.u
            THEN [f1 EXCEPT !.xhatf[tt] = xhatf, !.raised = Raise("IndexError", 88)]
            ELSE
            LET xnext == kfPredict(self, xhatf, sys.u[tt])
                Pf    == SubMul(f.Pp[tt], Mul(K, S), K)
                Pnext == Add(Mul(Mul(self.A, Pf), self.A), self.Q)
            IN  [f1 EXCEPT !.xhatf[tt] = xhatf, !.xhatp[tt + 1] = xnext,
                           !.Pf[tt] = Pf, !.Pp[tt + 1] = Pnext,
                           !.ll[tt] = LLTerm(S, e)]

\* mutant of kfRange: the loop starts at 1
kfRangeFromOne(sys) == 1 .. sys.T - 1

\* line 79: for tt in range(0, sys.T)
kfRange(sys) == 0 .. sys.T - 1

RECURSIVE kfLoop(_, _, _)
kfLoop(self, sys, f) ==
    IF f.raised # NoExc \/ f.tt \notin kfRange(sys) THEN f
    ELSE kfLoop(self, sys, kfStep(self, sys, f))

\* lines 101-107: the results become attributes of the filter object
kfOutSelf(self, f, h) ==
    [self EXCEPT !.ll    = npSumLL(f.ll),
                 !.llt   = NewRef(h, self.llt, 1),
                 !.xhatf = NewRef(h, self.xhatf, 2),
                 !.xhatp = NewRef(h, self.xhatp, 3),
                 !.K     = NewRef(h, self.K, 4),
                 !.Pp    = NewRef(h, self.Pp, 5),
                 !.Pf    = NewRef(h, self.Pf, 6)]

kfOutBind(s1, f, h) ==
    Bind(Bind(Bind(Bind(Bind(Bind(h, s1.llt, f.ll), s1.xhatf, f.xhatf), s1.xhatp, f.xhatp),
                   s1.K, f.K), s1.Pp, f.Pp), s1.Pf, f.Pf)

kfOutHeap(self, f, h) == kfOutBind(kfOutSelf(self, f, h), f, h)

\* how kf ends: with the exception of its loop, or with its results stored
kfEnd(s0, f, h) ==
    IF f.raised # NoExc
    THEN [self |-> s0, heap |-> h, raised |-> f.raised, steps |-> f.tt, terms |-> 0,
          Jset |-> {}, Jread |-> {}]
    ELSE [self |-> kfOutSelf(s0, f, h), heap |-> kfOutHeap(s0, f, h),
          raised |-> NoExc, steps |-> f.tt, terms |-> 0,
          Jset |-> {}, Jread |-> {}]

\* lines 54-107, on the filter object s0 that lines 47-69 leave
kfRun(s0, sys, h) == kfEnd(s0, kfLoop(s0, sys, kfFrame(s0, sys)), h)

\* kf as a whole: the filter object, the heap and the exception it leaves
kf(self, sys, h) == kfRun(kfSelf(self, sys), sys, h)

(***************************************************************************)
(* ssm.dprior1 and the two density helpers it calls                        *)
(***************************************************************************)
\* d/dx of the log of a normal density with mean mu and deviation sigma
normalLogPDFgradient(x, mu, sigma) == Neg(Div(Sub(x, mu), Sq(sigma)))

\* d/dx of the log of a gamma density with shape a and rate b
gammaLogPDFgradient(x, a, b) == Sub(Div(Sub(a, One), x), b)

\* Dparm, line 97: the transition residual of the model
DparmPx(sys, xtt, xt, tt) ==
    Sub(Sub(Sub(xtt, sys.par[0]), Mul(sys.par[1], Sub(xt, sys.par[0]))), sys.u[tt - 1])

dprior1(sys, v1) ==
    IF v1 = 0 THEN normalLogPDFgradient(sys.par[0], Zero, <<1, 5>>)
    ELSE IF v1 = 1 THEN normalLogPDFgradient(sys.par[1], <<9, 10>>, <<1, 20>>)
    ELSE IF v1 = 2 THEN gammaLogPDFgradient(sys.par[2], <<1, 5>>, <<1, 5>>)
    ELSE IF v1 = 3 THEN gammaLogPDFgradient(sys.par[3], Two, Two)
    ELSE Zero

(***************************************************************************)
(* kalmanMethods.rts                                                       *)
(***************************************************************************)
\* a[i] as Python indexes it: a negative i counts from the end
PyIndex(a, i) == IF i < 0 THEN i + Cardinality(DOMAIN a) ELSE i

\* lines 124-127: the local arrays of one rts call; Jset and Jread record the
\* entries of J the backward loop has assigned and the M loop has read
rtsFrame(sys) ==
    [J         |-> zeros(sys.T),
     M         |-> zeros(sys.T),
     xhats     |-> zeros(sys.T),
     Ps        |-> zeros(sys.T),
     gradient  |-> [i \in 0 .. 3 |-> zeros(sys.T)],
     gradient0 |-> <<>>,
     bound     |-> FALSE,
     terms     |-> 0,
     Jset      |-> {},
     Jread     |-> {},
     raised    |-> NoExc]

\* lines 130-131: the last smoothed state is the last filtered state
rtsLast(self, sys, h, g) ==
    LET Pf == h[self.Pf]
        xf == h[self.xhatf]
        i  == sys.T - 1
    IN  IF PyIndex(Pf, i) \notin DOMAIN Pf THEN [g EXCEPT !.raised = Raise("IndexError", 130)]
        ELSE [g EXCEPT !.Ps[PyIndex(g.Ps, i)] = Pf[PyIndex(Pf, i)],
                       !.xhats[PyIndex(g.xhats, i)] = xf[PyIndex(xf, i)]]

\* line 137: for tt in range(sys.T-2, 0, -1), the first index and the last
rtsBackFirst(sys) == sys.T - 2

rtsBackLast == 1

\* lines 138-140: one iteration of the backward loop
rtsBackStep(self, h, g, tt) ==
    LET Pf == h[self.Pf]
        Pp == h[self.Pp]
        xf == h[self.xhatf]
        xp == h[self.xhatp]
        J  == Div(Mul(Pf[tt], self.A), Pp[tt + 1])
    IN  [g EXCEPT !.J[tt]     = J,
                  !.Jset      = g.Jset \cup {tt},
                  !.xhats[tt] = Add(xf[tt], Mul(J, Sub(g.xhats[tt + 1], xp[tt + 1]))),
                  !.Ps[tt]    = Add(Pf[tt], Mul(Mul(J, Sub(g.Ps[tt + 1], Pp[tt + 1])), J))]

RECURSIVE rtsBackLoop(_, _, _, _)
rtsBackLoop(self, h, g, tt) ==
    IF tt < rtsBackLast THEN g
    ELSE rtsBackLoop(self, h, rtsBackStep(self, h, g, tt), tt - 1)

\* line 146
rtsMLast(self, sys, h, g) ==
    LET K  == h[self.K]
        Pf == h[self.Pf]
        i  == sys.T - 1
    IN  [g EXCEPT !.M[PyIndex(g.M, i)] =
            Mul(Mul(Sub(One, K[PyIndex(K, i)]), self.A), Pf[PyIndex(Pf, i)])]

\* line 148: one iteration of the M loop
rtsMStep(self, h, g, tt) ==
    LET Pf == h[self.Pf]
        J1 == g.J[tt - 1]
    IN  [g EXCEPT !.M[tt] =
            Add(Mul(Pf[tt], J1), Mul(Mul(J1, Sub(g.M[tt + 1], Mul(self.A, Pf[tt]))), J1)),
                  !.Jread = g.Jread \cup {tt - 1}]

RECURSIVE rtsMLoop(_, _, _, _)
rtsMLoop(self, h, g, tt) ==
    IF tt < 1 THEN g
    ELSE rtsMLoop(self, h, rtsMStep(self, h, g, tt), tt - 1)

\* lines 130-148: the backward pass
rtsSmoothFrom(self, sys, h, g1) ==
    IF g1.raised # NoExc THEN g1
    ELSE rtsMLoop(self, h,
                  rtsMLast(self, sys, h, rtsBackLoop(self, h, g1, rtsBackFirst(sys))),
                  sys.T - 2)

rtsSmooth(self, sys, h, g) == rtsSmoothFrom(self, sys, h, rtsLast(self, sys, h, g))

\* gradient[0:n, :]: the first n rows of the 4 rows
Rows(sys) == 0 .. (IF sys.nParInference < 4 THEN sys.nParInference ELSE 4) - 1

\* line 173: np.sum(gradient[0:sys.nParInference,:], axis=1)
rowSums(sys, gradient) == [i \in Rows(sys) |-> npSum(gradient[i])]

\* line 162: the transition residual of the gradient loop
rtsPx(self, xs, u, tt) ==
    Add(Sub(Sub(xs[tt], self.m), Mul(self.A, Sub(xs[tt - 1], self.m))), u[tt])

\* lines 157-173: one iteration of the gradient loop
rtsGradStep(self, sys, g, tt) ==
    IF tt \notin DOMAIN sys.y THEN [g EXCEPT !.raised = Raise("IndexError", 157)]
    ELSE IF tt \notin DOMAIN sys.u THEN [g EXCEPT !.raised = Raise("IndexError", 162)]
    ELSE
    LET xs    == g.xhats
        m     == self.m
        A     == self.A
        kappa == Mul(xs[tt], sys.y[tt])
        eta   == Add(Mul(xs[tt], xs[tt]), g.Ps[tt])
        eta1  == Add(Mul(xs[tt - 1], xs[tt - 1]), g.Ps[tt - 1])
        psi   == Add(Mul(xs[tt - 1], xs[tt]), g.M[tt])
        px    == rtsPx(self, xs, sys.u, tt)
        Q1    == PowNeg(self.q, 1)
        Q2    == PowNeg(self.q, 2)
        Q3    == PowNeg(self.q, 3)
        omA   == Sub(One, A)
        g0    == Mul(Mul(Q2, px), omA)
        g1    == Sub(Mul(Q2, Sub(Sub(psi, Mul(Mul(m, xs[tt - 1]), omA)), Mul(A, eta1))),
                     Mul(Mul(Q2, m), px))
        g2    == Sub(Mul(Q3,
                         Add(Sub(Add(Sub(eta, Mul(Mul(Two, A), psi)), Mul(Sq(A), eta1)),
                                 Mul(Mul(Mul(Two, Sub(xs[tt], Mul(A, xs[tt - 1]))), m), omA)),
                             Mul(Sq(m), Sq(omA)))),
                     Q1)
        g3    == Sub(Mul(PowNeg(self.r, 3),
                         Add(Sub(Sq(sys.y[tt]), Mul(Two, kappa)), eta)),
                     PowNeg(self.r, 1))
        grad  == [g.gradient EXCEPT ![0][tt] = g0, ![1][tt] = g1, ![2][tt] = g2, ![3][tt] = g3]
    IN  [g EXCEPT !.gradient = grad, !.gradient0 = rowSums(sys, grad), !.bound = TRUE,
                  !.terms = g.terms + 1]

\* line 156: for tt in range(1, sys.T)
RECURSIVE rtsGradLoop(_, _, _, _)
rtsGradLoop(self, sys, g, tt) ==
    IF g.raised # NoExc \/ tt > sys.T - 1 THEN g
    ELSE rtsGradLoop(self, sys, rtsGradStep(self, sys, g, tt), tt + 1)

\* mutant of rtsPriorStep: the prior derivative is added twice
rtsPriorStepTwice(sys, g, nn) ==
    IF ~g.bound THEN [g EXCEPT !.raised = Raise("UnboundLocalError", 177)]
    ELSE IF nn \notin DOMAIN g.gradient0 THEN [g EXCEPT !.raised = Raise("IndexError", 177)]
    ELSE [g EXCEPT !.gradient0[nn] =
              Add(dprior1(sys, nn), Add(dprior1(sys, nn), g.gradient0[nn]))]

\* line 177, for one nn
rtsPriorStep(sys, g, nn) ==
    IF ~g.bound THEN [g EXCEPT !.raised = Raise("UnboundLocalError", 177)]
    ELSE IF nn \notin DOMAIN g.gradient0 THEN [g EXCEPT !.raised = Raise("IndexError", 177)]
    ELSE [g EXCEPT !.gradient0[nn] = Add(dprior1(sys, nn), g.gradient0[nn])]

\* line 176: for nn in range(0, sys.nParInference)
RECURSIVE rtsPriorLoop(_, _, _)
rtsPriorLoop(sys, g, nn) ==
    IF g.raised # NoExc \/ nn > sys.nParInference - 1 THEN g
    ELSE rtsPriorLoop(sys, rtsPriorStep(sys, g, nn), nn + 1)

\* lines 183-184
rtsOutSmooth(self, g, h) ==
    [self EXCEPT !.Ps = NewRef(h, self.Ps, 1), !.xhats = NewRef(h, self.xhats, 2)]

\* lines 186-187
rtsOutGrad(self, g, h) ==
    [self EXCEPT !.gradient = NewRef(h, self.gradient, 3),
                 !.gradient1 = NewRef(h, self.gradient1, 4)]

\* lines 183-187: the results become attributes of the filter object
rtsOutBind(s1, s2, sys, g, h1) ==
    IF ~g.bound
    THEN [self |-> s1, heap |-> h1, raised |-> Raise("UnboundLocalError", 186)]
    ELSE [self |-> s2,
          heap |-> Bind(Bind(h1, s2.gradient, [i \in Rows(sys) |-> g.gradient0[i]]),
                        s2.gradient1, [i \in Rows(sys) |-> g.gradient[i]]),
          raised |-> NoExc]

rtsOutFrom(s1, sys, g, h) ==
    rtsOutBind(s1, rtsOutGrad(s1, g, h), sys, g, Bind(Bind(h, s1.Ps, g.Ps), s1.xhats, g.xhats))

rtsOut(self, sys, g, h) == rtsOutFrom(rtsOutSmooth(self, g, h), sys, g, h)

\* mutant of rtsFilter: the filter results of an earlier call are reused
rtsFilterCached(self, sys, h) ==
    IF self.Pf # 0
    THEN [self |-> self, heap |-> h, raised |-> NoExc, steps |-> 0, terms |-> 0,
          Jset |-> {}, Jread |-> {}]
    ELSE kf(self, sys, h)

\* line 121: the preliminary filter run
rtsFilter(self, sys, h) == kf(self, sys, h)

\* rts as a whole
\* how rts ends, given what its filter run k, its loops g and its output o left
rtsEnd(k, g, o) ==
    [self |-> o.self, heap |-> o.heap, raised |-> o.raised, steps |-> k.steps,
     terms |-> g.terms, Jset |-> g.Jset, Jread |-> g.Jread]

\* lines 183-187, unless a loop raised
rtsOutOrRaise(k, sys, g) ==
    IF g.raised # NoExc
    THEN [self |-> k.self, heap |-> k.heap, raised |-> g.raised, steps |-> k.steps,
          terms |-> g.terms, Jset |-> g.Jset, Jread |-> g.Jread]
    ELSE rtsEnd(k, g, rtsOut(k.self, sys, g, k.heap))

\* lines 124-187, unless the filter run raised
rtsAfterFilter(k, sys) ==
    IF k.raised # NoExc THEN k
    ELSE rtsOutOrRaise(k, sys,
             rtsPriorLoop(sys,
                 rtsGradLoop(k.self, sys, rtsSmooth(k.self, sys, k.heap, rtsFrame(sys)), 1),
                 0))

\* rts as a whole
rts(self, sys, h) ==
    rtsAfterFilter(rtsFilter([self EXCEPT !.smootherType = "rts"], sys, h), sys)

(***************************************************************************)
(* template_storeParameters                                                *)
(***************************************************************************)
nPar == 4

\* lines 52-58; line 55 raises when nParInference exceeds the 4 entries of par
template_storeParameters(model, newParm, spar) ==
    LET par == [kk \in 0 .. nPar - 1 |->
                   IF kk < model.nParInference THEN newParm[kk] ELSE spar[kk]]
    IN  [model  |-> [model EXCEPT !.par = par],
         raised |-> IF model.nParInference > nPar THEN Raise("IndexError", 55) ELSE NoExc]

(***************************************************************************)
(* State                                                                   *)
(***************************************************************************)
VARIABLES
    model,    \* the ssm object handed to kf and rts: par, y, u, T, nParInference
    sysPar,   \* par of the system object handed to storeParameters
    kalman,   \* the kalmanMethods object
    heap,     \* the arrays created so far
    last,     \* the last call: its operation, its model, how it ended
    held,     \* what a caller kept of the call before the last one
    nCalls,   \* kf and rts calls made
    ev,       \* interleaved evaluations: position and locals of each
    fd,       \* finite-difference comparison: the two sides
    res       \* a state sequence following the filter's prediction, and its residuals

vars == <<model, sysPar, kalman, heap, last, held, nCalls, ev, fd, res>>

\* bounds of the model
MaxT == 3

MaxN == 5

MaxCalls == 2

\* attribute not set yet
None == <<>>

\* a kalmanMethods object after construction
NewKalman ==
    [xo |-> None, Po |-> None, filterType |-> "", smootherType |-> "",
     m |-> None, A |-> None, C |-> None, Q |-> None, q |-> None, R |-> None, r |-> None,
     ll |-> [r |-> None, L |-> EmptyBag],
     llt |-> 0, xhatf |-> 0, xhatp |-> 0, K |-> 0, Pp |-> 0, Pf |-> 0,
     Ps |-> 0, xhats |-> 0, gradient |-> 0, gradient1 |-> 0]

Par(m, A, q, r) == [kk \in 0 .. 3 |-> IF kk = 0 THEN m ELSE IF kk = 1 THEN A
                                       ELSE IF kk = 2 THEN q ELSE r]

\* parameter vectors [mu, phi, sigma_v, sigma_e] tried
ParSet ==
    { Par(Zero, Zero, One, One), Par(One, Zero, Two, One), Par(Zero, Zero, Zero, One),
      Par(One, Zero, One, Zero), Par(Zero, Zero, Zero, Zero) }

\* observations and inputs tried: prefixes of fixed streams
YStream == [t \in 0 .. MaxT + 1 |-> IF t % 2 = 0 THEN One ELSE Num(-1)]

UStreams == { [t \in 0 .. MaxT + 1 |-> Zero], [t \in 0 .. MaxT + 1 |-> Num(t + 1)] }

Prefix(a, n) == [t \in 0 .. n - 1 |-> a[t]]

NoCall ==
    [op |-> "none", sys |-> None, raised |-> NoExc, steps |-> 0, terms |-> 0,
     Jset |-> {}, Jread |-> {}]

NoEv == <<>>

NoFd == <<>>
NoRes == <<>>

Init ==
    /\ sysPar = Par(Zero, Zero, One, One)
    /\ \E T \in 0 .. MaxT, n \in 0 .. MaxN, us \in UStreams :
          model = [par |-> sysPar, y |-> Prefix(YStream, T), u |-> Prefix(us, T),
                   T |-> T, nParInference |-> n]
    /\ kalman = NewKalman
    /\ heap = <<>>
    /\ last = NoCall
    /\ held = None
    /\ nCalls = 0
    /\ ev = NoEv
    /\ fd = NoFd
    /\ res = NoRes

\* the array attributes a caller reads from the filter object, and the scalar
KfFields == {"llt", "xhatf", "xhatp", "K", "Pp", "Pf"}

RtsFields == {"Ps", "xhats", "gradient", "gradient1"}

\* what the caller keeps: the scalar and the arrays the attributes refer to
Keep(self, h) ==
    [ll   |-> self.ll,
     refs |-> [a \in KfFields \cup RtsFields |-> self[a]],
     vals |-> [a \in KfFields \cup RtsFields |-> IF self[a] = 0 THEN None ELSE h[self[a]]]]

StoreParameters(newParm) ==
    /\ model' = template_storeParameters(model, newParm, sysPar).model
    /\ UNCHANGED <<sysPar, kalman, heap, last, held, nCalls, ev, fd, res>>

\* a call has ended as o says; the caller kept what the call before it left
Returned(op, o) ==
    /\ kalman' = o.self
    /\ heap' = o.heap
    /\ last' = [op |-> op, sys |-> model, raised |-> o.raised,
                steps |-> o.steps, terms |-> o.terms,
                Jset |-> o.Jset, Jread |-> o.Jread]
    /\ held' = Keep(kalman, heap)
    /\ nCalls' = nCalls + 1
    /\ UNCHANGED <<model, sysPar, ev, fd, res>>

CallKf ==
    /\ nCalls < MaxCalls
    /\ Returned("kf", kf(kalman, model, heap))

CallRts ==
    /\ nCalls < MaxCalls
    /\ Returned("rts", rts(kalman, model, heap))

Next ==
    \/ \E p \in ParSet : StoreParameters(p)
    \/ CallKf
    \/ CallRts

Spec == Init /\ [][Next]_vars

(***************************************************************************)
(* Models whose y and u need not have T entries                            *)
(***************************************************************************)
InitDim ==
    /\ sysPar = Par(Zero, Zero, One, One)
    /\ \E T \in 0 .. MaxT, ly \in 0 .. MaxT + 1, lu \in 0 .. MaxT + 1,
          n \in {1, 4}, us \in UStreams :
          model = [par |-> sysPar, y |-> Prefix(YStream, ly), u |-> Prefix(us, lu),
                   T |-> T, nParInference |-> n]
    /\ kalman = NewKalman
    /\ heap = <<>>
    /\ last = NoCall
    /\ held = None
    /\ nCalls = 0
    /\ ev = NoEv
    /\ fd = NoFd
    /\ res = NoRes

SpecDim == InitDim /\ [][Next]_vars

(***************************************************************************)
(* Two evaluations (store the parameters, run rts, read the results) on    *)
(* the one model object and the one filter object, interleaved step by     *)
(* step.  The locals of kf and rts belong to each evaluation; the          *)
(* attributes of the two objects are shared.                               *)
(***************************************************************************)
Evals == {1, 2}

ConcPars == { Par(One, Zero, Two, One), Par(Zero, Zero, Zero, One) }

InitConc ==
    /\ sysPar = Par(Zero, Zero, One, One)
    /\ \E T \in 2 .. MaxT, n \in {2, 4}, us \in UStreams :
          model = [par |-> sysPar, y |-> Prefix(YStream, T), u |-> Prefix(us, T),
                   T |-> T, nParInference |-> n]
    /\ kalman = NewKalman
    /\ heap = <<>>
    /\ last = NoCall
    /\ held = None
    /\ nCalls = 0
    /\ \E p2 \in ConcPars :
          ev = [e \in Evals |->
                   [pc |-> "store", par |-> IF e = 1 THEN sysPar ELSE p2,
                    f |-> None, g |-> None, ll |-> None, gradient |-> None]]
    /\ fd = NoFd
    /\ res = NoRes

Shared == <<sysPar, last, held, nCalls, fd, res>>

\* th.storeParameters(par, sys)
EvStore(e) ==
    /\ ev[e].pc = "store"
    /\ model' = template_storeParameters(model, ev[e].par, sysPar).model
    /\ ev' = [ev EXCEPT ![e].pc = "kfInit"]
    /\ UNCHANGED <<kalman, heap>>
    /\ UNCHANGED Shared

\* rts: line 118, then kf up to its loop
EvKfInit(e) ==
    /\ ev[e].pc = "kfInit"
    /\ kalman' = kfSelf([kalman EXCEPT !.smootherType = "rts"], model)
    /\ ev' = [ev EXCEPT ![e].pc = "kfLoop", ![e].f = kfFrame(kalman', model)]
    /\ UNCHANGED <<model, heap>>
    /\ UNCHANGED Shared

\* kf: one iteration of its loop
EvKfStep(e) ==
    /\ ev[e].pc = "kfLoop"
    /\ ev[e].f.tt \in kfRange(model)
    /\ LET f1 == kfStep(kalman, model, ev[e].f)
       IN  ev' = [ev EXCEPT ![e].f = f1,
                            ![e].pc = IF f1.raised # NoExc THEN "failed" ELSE "kfLoop"]
    /\ UNCHANGED <<model, kalman, heap>>
    /\ UNCHANGED Shared

\* kf: the loop is over, the results become attributes
EvKfOut(e) ==
    /\ ev[e].pc = "kfLoop"
    /\ ev[e].f.tt \notin kfRange(model)
    /\ kalman' = kfOutSelf(kalman, ev[e].f, heap)
    /\ heap' = kfOutHeap(kalman, ev[e].f, heap)
    /\ ev' = [ev EXCEPT ![e].pc = "smooth"]
    /\ UNCHANGED model
    /\ UNCHANGED Shared

\* rts: lines 124-148
EvSmooth(e) ==
    /\ ev[e].pc = "smooth"
    /\ LET g1 == rtsSmooth(kalman, model, heap, rtsFrame(model))
       IN  ev' = [ev EXCEPT ![e].g = g1,
                            ![e].pc = IF g1.raised # NoExc THEN "failed" ELSE "grad"]
    /\ UNCHANGED <<model, kalman, heap>>
    /\ UNCHANGED Shared

\* rts: lines 154-173
EvGrad(e) ==
    /\ ev[e].pc = "grad"
    /\ LET g1 == rtsGradLoop(kalman, model, ev[e].g, 1)
       IN  ev' = [ev EXCEPT ![e].g = g1,
                            ![e].pc = IF g1.raised # NoExc THEN "failed" ELSE "prior"]
    /\ UNCHANGED <<model, kalman, heap>>
    /\ UNCHANGED Shared

\* rts: lines 176-177
EvPrior(e) ==
    /\ ev[e].pc = "prior"
    /\ LET g1 == rtsPriorLoop(model, ev[e].g, 0)
       IN  ev' = [ev EXCEPT ![e].g = g1,
                            ![e].pc = IF g1.raised # NoExc THEN "failed" ELSE "out"]
    /\ UNCHANGED <<model, kalman, heap>>
    /\ UNCHANGED Shared

\* rts: lines 183-187
EvOutDone(e, o) ==
    /\ kalman' = o.self
    /\ heap' = o.heap
    /\ ev' = [ev EXCEPT ![e].pc = IF o.raised # NoExc THEN "failed" ELSE "read"]

EvOut(e) ==
    /\ ev[e].pc = "out"
    /\ EvOutDone(e, rtsOut(kalman, model, ev[e].g, heap))
    /\ UNCHANGED model
    /\ UNCHANGED Shared

\* the caller reads the total log-likelihood and the gradient
EvRead(e) ==
    /\ ev[e].pc = "read"
    /\ ev' = [ev EXCEPT ![e].pc = "done", ![e].ll = kalman.ll,
                        ![e].gradient = heap[kalman.gradient]]
    /\ UNCHANGED <<model, kalman, heap>>
    /\ UNCHANGED Shared

NextConc ==
    \E e \in Evals :
        \/ EvStore(e)
        \/ EvKfInit(e)
        \/ EvKfStep(e)
        \/ EvKfOut(e)
        \/ EvSmooth(e)
        \/ EvGrad(e)
        \/ EvPrior(e)
        \/ EvOut(e)
        \/ EvRead(e)

SpecConc == InitConc /\ [][NextConc]_vars

(***************************************************************************)
(* Centred finite difference of the filter's total log-likelihood.  The    *)
(* difference of two log-likelihoods is a number when their log terms      *)
(* cancel, which they do for parameter 0 (mu): S_t does not depend on it.  *)
(* The log-likelihood is then a quadratic in mu, for which the centred     *)
(* difference is the derivative itself, whatever the step.                 *)
(***************************************************************************)
Bump(sys, i, d) == [sys EXCEPT !.par[i] = Add(sys.par[i], d)]

\* (ll(par + h) - ll(par - h)) / (2 h)
Centred(up, dn, h) == IF up.L = dn.L THEN Div(Sub(up.r, dn.r), Mul(Two, h)) ELSE NaN

FiniteDiff(sys, i, h) ==
    Centred(kf(NewKalman, Bump(sys, i, h), <<>>).self.ll,
            kf(NewKalman, Bump(sys, i, Neg(h)), <<>>).self.ll, h)

FdSteps == { One, <<1, 10>> }

InitFD ==
    /\ sysPar = Par(Zero, Zero, One, One)
    /\ \E T \in 3 .. MaxT, us \in UStreams :
          model = [par |-> sysPar, y |-> Prefix(YStream, T), u |-> Prefix(us, T),
                   T |-> T, nParInference |-> 4]
    /\ kalman = NewKalman
    /\ heap = <<>>
    /\ last = NoCall
    /\ held = None
    /\ nCalls = 0
    /\ ev = NoEv
    /\ fd = NoFd
    /\ res = NoRes

\* the estimate for parameter i with step h, at the model's current parameters
FiniteDifference(i, h) ==
    /\ fd' = [i |-> i, h |-> h, sys |-> model, est |-> FiniteDiff(model, i, h)]
    /\ UNCHANGED <<model, sysPar, kalman, heap, last, held, nCalls, ev, res>>

NextFD ==
    \/ \E p \in ParSet : StoreParameters(p)
    \/ CallRts
    \/ \E h \in FdSteps : FiniteDifference(0, h)

SpecFD == InitFD /\ [][NextFD]_vars

(***************************************************************************)
(* A sequence of states that follows the filter's prediction rule exactly, *)
(* x[t] = kfPredict(x[t-1], u[t-1]), with the transition residual the      *)
(* gradient loop of rts and the model's Dparm compute for each t.          *)
(***************************************************************************)
PxInputs == UStreams \cup { [t \in 0 .. MaxT + 1 |-> IF t % 2 = 0 THEN One ELSE Num(-1)] }

InitPx ==
    /\ sysPar = Par(Zero, Zero, One, One)
    /\ \E T \in 2 .. MaxT, us \in PxInputs, m \in {Zero, One}, A \in {Zero, Half, One} :
          model = [par |-> Par(m, A, One, One), y |-> Prefix(YStream, T),
                   u |-> Prefix(us, T), T |-> T, nParInference |-> 4]
    /\ kalman = NewKalman
    /\ heap = <<>>
    /\ last = NoCall
    /\ held = None
    /\ nCalls = 0
    /\ ev = NoEv
    /\ fd = NoFd
    /\ \E x0 \in {Zero, One} :
          res = [self |-> kfSelf(NewKalman, model), xs |-> [t \in {0} |-> x0],
                 tt |-> 0, px |-> <<>>, Dpx |-> <<>>]

\* the next state by the filter's rule, then the residuals at the new index
ResidualAt(r, xs, tt) ==
    [r EXCEPT !.xs = xs, !.tt = tt,
              !.px = [t \in 1 .. tt |-> IF t = tt THEN rtsPx(r.self, xs, model.u, tt)
                                         ELSE r.px[t]],
              !.Dpx = [t \in 1 .. tt |-> IF t = tt THEN DparmPx(model, xs[tt], xs[tt - 1], tt)
                                          ELSE r.Dpx[t]]]

PredictNext ==
    /\ res # NoRes
    /\ res.tt + 1 \in 1 .. model.T - 1
    /\ res' = ResidualAt(res,
                  [t \in 0 .. res.tt + 1 |->
                      IF t = res.tt + 1
                      THEN kfPredict(res.self, res.xs[res.tt], model.u[res.tt])
                      ELSE res.xs[t]],
                  res.tt + 1)
    /\ UNCHANGED <<model, sysPar, kalman, heap, last, held, nCalls, ev, fd>>

NextPx == PredictNext

SpecPx == InitPx /\ [][NextPx]_vars

(***************************************************************************)
(* What a caller reads after the last call                                 *)
(***************************************************************************)
Called == last.op # "none"

Completed == Called /\ last.raised = NoExc

\* the array an attribute of the filter object refers to
Attr(a) == heap[kalman[a]]

\* the filter part of the last call ran to its end (kf itself, or kf inside rts)
FilterDone == Called /\ (last.raised = NoExc \/ last.raised.line >= 130)

(***************************************************************************)
(* C1: for T >= 2 and nParInference n in 1..4, with sigma_v and sigma_e    *)
(* non-zero, rts completes, the gradient has exactly n entries, entry i is *)
(* the sum over t = 1..T-1 of the per-time partial score of parameter i    *)
(* plus dprior1(i), added once, and the raw per-time matrix has n rows.    *)
(***************************************************************************)
RECURSIVE C1_ScoreSum(_, _)
C1_ScoreSum(row, t) == IF t < 1 THEN Zero ELSE Add(C1_ScoreSum(row, t - 1), row[t])

C1_Case ==
    /\ last.op = "rts"
    /\ last.sys.T >= 2
    /\ last.sys.nParInference \in 1 .. 4
    /\ last.sys.par[2] # Zero
    /\ last.sys.par[3] # Zero

C1_GradientIsScorePlusPrior ==
    C1_Case =>
        /\ last.raised = NoExc
        /\ DOMAIN Attr("gradient") = 0 .. last.sys.nParInference - 1
        /\ DOMAIN Attr("gradient1") = 0 .. last.sys.nParInference - 1
        /\ \A i \in 0 .. last.sys.nParInference - 1 :
              /\ DOMAIN Attr("gradient1")[i] = 0 .. last.sys.T - 1
              /\ Attr("gradient")[i] =
                     Add(C1_ScoreSum(Attr("gradient1")[i], last.sys.T - 1),
                         dprior1(last.sys, i))

C1_Witness ==
    /\ C1_Case
    /\ last.sys.T = 3
    /\ last.sys.nParInference = 4
    /\ last.sys.par = Par(One, Zero, Two, One)
    /\ last.sys.u[0] # Zero
    /\ Completed
    /\ Attr("gradient")[0] # C1_ScoreSum(Attr("gradient1")[0], 2)

(***************************************************************************)
(* C2: the outputs of a kf or rts call depend only on the model handed to  *)
(* that call (par, y, u, T, nParInference), not on the calls made before   *)
(* on the same filter object: they are those of the same call on a new     *)
(* filter object, and rts re-runs the filter itself.                       *)
(***************************************************************************)
C2_Outputs(op, self, h) ==
    [ll   |-> self.ll,
     arrs |-> [a \in (IF op = "rts" THEN KfFields \cup RtsFields ELSE KfFields) |-> h[self[a]]]]

C2_Alone(op, sys) == IF op = "rts" THEN rts(NewKalman, sys, <<>>) ELSE kf(NewKalman, sys, <<>>)

C2_OutputsDependOnInputsOnly ==
    Called =>
        LET alone == C2_Alone(last.op, last.sys)
        IN  /\ last.raised = alone.raised
            /\ last.raised = NoExc =>
                  C2_Outputs(last.op, kalman, heap) = C2_Outputs(last.op, alone.self, alone.heap)

C2_Witness ==
    /\ nCalls = 2
    /\ last.op = "rts"
    /\ Completed
    /\ held.refs["gradient"] # 0
    /\ held.vals["gradient"] # Attr("gradient")
    /\ held.vals["Pf"] # Attr("Pf")

(***************************************************************************)
(* C3: after rts with T >= 2 the index-0 entries of xhats and Ps, which    *)
(* the backward loop never assigns, are marked undefined (not a number),   *)
(* never left at the default zero of np.zeros.                             *)
(***************************************************************************)
C3_Index0MarkedUndefined ==
    (last.op = "rts" /\ Completed /\ last.sys.T >= 2) =>
        /\ IsNaN(Attr("xhats")[0])
        /\ IsNaN(Attr("Ps")[0])

(***************************************************************************)
(* C4: an rts call with T < 2 or nParInference outside 1..4 ends in a      *)
(* failure, raised before the backward pass has assigned anything (at the  *)
(* latest by the first statement of the smoother, line 130): no smoothed   *)
(* quantity and no gradient term has been computed.                        *)
(***************************************************************************)
C4_PreconditionFailsEarly ==
    (last.op = "rts" /\ (last.sys.T < 2 \/ last.sys.nParInference \notin 1 .. 4)) =>
        /\ last.raised # NoExc
        /\ last.raised.line <= 130
        /\ last.terms = 0

(***************************************************************************)
(* C5: no kf or rts call returns a log-likelihood or a gradient entry that *)
(* is NaN or infinite: a call that divides by zero ends in a failure.      *)
(***************************************************************************)
C5_NoNonFiniteResult ==
    Completed =>
        /\ IsFinite(kalman.ll.r)
        /\ last.op = "rts" => \A i \in DOMAIN Attr("gradient") : IsFinite(Attr("gradient")[i])

RECURSIVE C9_Total(_, _)
C9_Total(llt, t) == IF t < 0 THEN LLZero ELSE LLAdd(llt[t], C9_Total(llt, t - 1))

C9_TotalIsSumOfSteps ==
    FilterDone =>
        /\ DOMAIN Attr("llt") = 0 .. last.sys.T - 1
        /\ \A t \in 0 .. last.sys.T - 1 :
              /\ Attr("llt")[t] # LLZero
              /\ Attr("llt")[t] = LLTerm(Add(Attr("Pp")[t], Sq(last.sys.par[3])),
                                         Sub(last.sys.y[t], Attr("xhatp")[t]))
        /\ kalman.ll = C9_Total(Attr("llt"), last.sys.T - 1)

C9_Witness ==
    /\ last.op = "kf"
    /\ Completed
    /\ last.sys.T = 3
    /\ nCalls = 2
    /\ held.refs["llt"] # 0
    /\ held.ll # kalman.ll

(***************************************************************************)
(* C6: when two evaluations for two parameter vectors are interleaved step *)
(* by step without locking, the total log-likelihood and the gradient each *)
(* evaluation reads are those it reads when it runs alone.                 *)
(***************************************************************************)
C6_Alone(e) ==
    LET o == rts(NewKalman, template_storeParameters(model, ev[e].par, sysPar).model, <<>>)
    IN  [ll |-> o.self.ll, gradient |-> o.heap[o.self.gradient]]

C6_InterleavedEqualsAlone ==
    \A e \in DOMAIN ev :
        ev[e].pc = "done" =>
            /\ ev[e].ll = C6_Alone(e).ll
            /\ ev[e].gradient = C6_Alone(e).gradient

(***************************************************************************)
(* C8: a kf or rts call on a model whose y and u differ in length, or      *)
(* whose T is not their length, fails before the first step of the filter  *)
(* recursion.                                                              *)
(***************************************************************************)
Len0(a) == Cardinality(DOMAIN a)

C8_DimensionMismatchFailsFirst ==
    (Called /\ (Len0(last.sys.y) # Len0(last.sys.u) \/ Len0(last.sys.y) # last.sys.T)) =>
        /\ last.raised # NoExc
        /\ last.steps = 0

(***************************************************************************)
(* C10: for T >= 3 and nParInference = 4, gradient[i] returned by rts is   *)
(* within 1e-4 relative tolerance of the centred finite-difference         *)
(* estimate of the derivative of the filter's total log-likelihood with    *)
(* respect to parameter i (checked for i = 0, where the estimate is        *)
(* exact).                                                                 *)
(***************************************************************************)
AbsNum(x) == <<Abs(x[1]), x[2]>>

MaxNum(x, y) == IF Less(x, y) THEN y ELSE x

C10_GradientMatchesFiniteDifference ==
    (/\ last.op = "rts" /\ Completed
     /\ fd # NoFd /\ fd.sys = last.sys
     /\ last.sys.T >= 3 /\ last.sys.nParInference = 4
     /\ IsFinite(fd.est) /\ IsFinite(Attr("gradient")[fd.i])) =>
        LET g == Attr("gradient")[fd.i]
        IN  ~Less(MaxNum(AbsNum(g), AbsNum(fd.est)),
                  Mul(Num(10000), AbsNum(Sub(g, fd.est))))

(***************************************************************************)
(* C11: every entry of J the M recursion (line 148) reads, J[0] at tt = 1  *)
(* included, was assigned by an iteration of the backward loop (line 138). *)
(***************************************************************************)
C11_JReadWasAssigned ==
    last.op = "rts" => last.Jread \subseteq last.Jset

(***************************************************************************)
(* C12: when consecutive states satisfy the filter's prediction rule       *)
(* exactly, x[t] = m + A * (x[t-1] - m) + u[t-1], the residual px the      *)
(* gradient loop of rts computes is zero for every t in 1..T-1.            *)
(***************************************************************************)
C12_ResidualZeroOnPrediction ==
    res # NoRes => \A t \in DOMAIN res.px : res.px[t] = Zero

====
